---- MODULE Spec2Model ----
(***************************************************************************)
(* Scalar multiplication strategies of btclib/curvemult2.py:               *)
(* Montgomery ladder, radix 3, fixed window, sliding window and wNAF.      *)
(*                                                                         *)
(* A curve point is modelled by its index in the cyclic group generated by *)
(* G: the point k*G is the integer k in 0..ec_n-1, infinity is 0.  The     *)
(* group law of the CurveGroup collaborator (btclib/curve.py) is then      *)
(* addition modulo the group order.  One call of a strategy is a run of    *)
(* the state machine from pc = "idle" to pc = "done"; every loop iteration *)
(* of an engine is one step.                                               *)
(***************************************************************************)
EXTENDS Integers, Sequences, FiniteSets

\* ----- bounds of the model
ec_n == 13       \* order of the group (ec.n); the scalars are reduced by it
MaxM == 40       \* largest scalar a caller passes
MaxW == 4        \* largest window width a caller passes
MaxDigits == 8   \* cap on the signed digits the wNAF digit loop may emit

VARIABLES
    pc,       \* position of the running call
    fn,       \* the strategy that is running
    entry,    \* TRUE when called through the public mult_* entry point
    scalar,   \* the scalar the caller passed
    m0,       \* the scalar the engine received
    m,        \* the engine's local m (the wNAF digit loop consumes it, the
              \* ladder's loop variable rebinds it)
    w,        \* window width the engine received
    Q0,       \* the Jacobian point the engine received
    Q,        \* the engine's local Q (the ladder overwrites it)
    R,        \* accumulator
    T,        \* precomputation table, T[1] is the code's T[0]
    M,        \* digit sequence, M[1] is the code's M[0]
    i,        \* loop index i (0-based, as in the code)
    j,        \* sliding window: window length; wNAF: scan index
    t,        \* sliding window: value of the last window
    idx,      \* wNAF: table index of the last lookup (0-based), -1 if none
    ret,      \* "none", "point" or "ValueError"
    result,   \* the returned point
    ops,      \* ladder: the _add_jac calls made, "add" or "dbl", in order
    scanned   \* sliding window: the bit positions consumed, in order

vars == <<pc, fn, entry, scalar, m0, m, w, Q0, Q, R, T, M, i, j, t, idx,
          ret, result, ops, scanned>>

\* ----- the CurveGroup collaborator
INFJ == 0

Points == 0 .. (ec_n - 1)

_add_jac(A, B) == (A + B) % ec_n

negate(A) == (ec_n - A) % ec_n

_jac_from_aff(A) == A

_aff_from_jac(A) == A

\* ----- integer helpers
RECURSIVE pow2(_)
pow2(e) == IF e <= 0 THEN 1 ELSE 2 * pow2(e - 1)

RECURSIVE Reverse(_)
Reverse(s) == IF s = <<>> THEN <<>> ELSE Append(Reverse(Tail(s)), Head(s))

\* the while loop of numberToBase: digits least significant first
RECURSIVE digits_lsb(_, _)
digits_lsb(k, b) == IF k = 0 THEN <<>> ELSE <<k % b>> \o digits_lsb(k \div b, b)

\* the final digits[::-1] forgotten
numberToBase_unreversed(k, b) == IF k = 0 THEN <<0>> ELSE digits_lsb(k, b)

numberToBase(k, b) == IF k = 0 THEN <<0>> ELSE Reverse(digits_lsb(k, b))

\* [int(i) for i in bin(m)[2:]]: the binary digits, most significant first
bin_digits(k) == IF k = 0 THEN <<0>> ELSE Reverse(digits_lsb(k, 2))

\* int_from_integer on a native int
int_from_integer(k) == k

\* for z in range(c): P = ec._add_jac(P, P)
RECURSIVE dbl_times(_, _)
dbl_times(A, c) == IF c <= 0 THEN A ELSE dbl_times(_add_jac(A, A), c - 1)

\* T.append(first); for i in range(1, count): T.append(_add_jac(T[i-1], step))
RECURSIVE chain_table(_, _, _)
chain_table(first, step, count) ==
    IF count <= 1 THEN <<first>>
    ELSE LET prev == chain_table(first, step, count - 1)
         IN  Append(prev, _add_jac(prev[Len(prev)], step))

\* ----- frame helpers
Blank ==
    /\ m = 0 /\ w = 0 /\ Q0 = INFJ /\ Q = INFJ /\ R = INFJ
    /\ T = <<>> /\ M = <<>> /\ i = 0 /\ j = 0 /\ t = 0 /\ idx = -1
    /\ ret = "none" /\ result = INFJ /\ ops = <<>> /\ scanned = <<>>

Init ==
    /\ pc = "idle" /\ fn = "none" /\ entry = FALSE /\ scalar = 0 /\ m0 = 0
    /\ Blank

\* the arguments of a call, as the engine receives them
Args(f, e, s, mm, ww, QJ) ==
    /\ fn' = f /\ entry' = e /\ scalar' = s /\ m0' = mm /\ m' = mm
    /\ w' = ww /\ Q0' = QJ
    /\ idx' = -1 /\ ops' = <<>> /\ scanned' = <<>> /\ j' = 0 /\ t' = 0

Locals(q, r, tab, digs, ii) ==
    /\ Q' = q /\ R' = r /\ T' = tab /\ M' = digs /\ i' = ii

Raise == pc' = "done" /\ ret' = "ValueError" /\ result' = INFJ

Return(A) ==
    /\ pc' = "done" /\ ret' = "point"
    /\ result' = IF entry' THEN _aff_from_jac(A) ELSE A

Goto(l) == pc' = l /\ ret' = "none" /\ result' = INFJ

Scalars == -1 .. MaxM
Widths == -1 .. MaxW

\* Every call is made either through the public entry point mult_*, which
\* checks the point (every point of Points is on the curve), converts it and
\* reduces the scalar modulo ec_n, or on the engine _mult_jac_* directly.

\* ----- Montgomery ladder
_mult_jac_mont_ladder(e, s, mm, QJ) ==
    /\ Args("mont_ladder", e, s, mm, 0, QJ)
    /\ IF mm < 0 THEN Raise /\ Locals(QJ, INFJ, <<>>, <<>>, 0)
       ELSE IF QJ = INFJ THEN Return(QJ) /\ Locals(QJ, INFJ, <<>>, <<>>, 0)
       ELSE Goto("ml_loop") /\ Locals(QJ, INFJ, <<>>, bin_digits(mm), 0)

mult_mont_ladder ==
    /\ pc = "idle"
    /\ \E s \in Scalars, A \in Points :
           _mult_jac_mont_ladder(TRUE, s, int_from_integer(s) % ec_n, _jac_from_aff(A))

call_mult_jac_mont_ladder ==
    /\ pc = "idle"
    /\ \E s \in Scalars, QJ \in Points : _mult_jac_mont_ladder(FALSE, s, s, QJ)

\* plain double-and-add: a zero bit costs a doubling only
ml_loop_double_and_add ==
    /\ pc = "ml_loop" /\ i < Len(M)
    /\ IF M[i + 1] = 0
       THEN /\ Q' = Q
            /\ R' = _add_jac(R, R)
            /\ ops' = ops \o <<"dbl">>
       ELSE /\ R' = _add_jac(_add_jac(R, R), Q)
            /\ Q' = Q
            /\ ops' = ops \o <<"dbl", "add">>
    /\ m' = M[i + 1]
    /\ i' = i + 1
    /\ UNCHANGED <<pc, fn, entry, scalar, m0, w, Q0, T, M, j, t, idx,
                   ret, result, scanned>>

\* one iteration of for m in [bits]: the loop variable rebinds m
ml_loop ==
    /\ pc = "ml_loop" /\ i < Len(M)
    /\ IF M[i + 1] = 0
       THEN /\ Q' = _add_jac(R, Q)
            /\ R' = _add_jac(R, R)
            /\ ops' = ops \o <<"add", "dbl">>
       ELSE /\ R' = _add_jac(R, Q)
            /\ Q' = _add_jac(Q, Q)
            /\ ops' = ops \o <<"add", "dbl">>
    /\ m' = M[i + 1]
    /\ i' = i + 1
    /\ UNCHANGED <<pc, fn, entry, scalar, m0, w, Q0, T, M, j, t, idx,
                   ret, result, scanned>>

ml_return ==
    /\ pc = "ml_loop" /\ i >= Len(M)
    /\ pc' = "done" /\ ret' = "point"
    /\ result' = IF entry THEN _aff_from_jac(R) ELSE R
    /\ UNCHANGED <<fn, entry, scalar, m0, m, w, Q0, Q, R, T, M, i, j, t, idx,
                   ops, scanned>>

\* ----- radix 3
\* the table started at Q instead of INFJ
T_base_3_from_Q(QJ) == chain_table(QJ, QJ, 3)

T_base_3(QJ) == chain_table(INFJ, QJ, 3)

_mult_jac_base_3(e, s, mm, QJ) ==
    /\ Args("base_3", e, s, mm, 0, QJ)
    /\ IF mm < 0 THEN Raise /\ Locals(QJ, INFJ, <<>>, <<>>, 0)
       ELSE IF QJ = INFJ THEN Return(QJ) /\ Locals(QJ, INFJ, <<>>, <<>>, 0)
       ELSE LET tab == T_base_3(QJ)
                digs == numberToBase(mm, 3)
            IN  Goto("b3_loop") /\ Locals(QJ, tab[digs[1] + 1], tab, digs, 1)

mult_base_3 ==
    /\ pc = "idle"
    /\ \E s \in Scalars, A \in Points :
           _mult_jac_base_3(TRUE, s, int_from_integer(s) % ec_n, _jac_from_aff(A))

call_mult_jac_base_3 ==
    /\ pc = "idle"
    /\ \E s \in Scalars, QJ \in Points : _mult_jac_base_3(FALSE, s, s, QJ)

b3_loop ==
    /\ pc = "b3_loop" /\ i < Len(M)
    /\ LET R2 == _add_jac(R, R)
           R3 == _add_jac(R2, R)
       IN  R' = _add_jac(R3, T[M[i + 1] + 1])
    /\ i' = i + 1
    /\ UNCHANGED <<pc, fn, entry, scalar, m0, m, w, Q0, Q, T, M, j, t, idx,
                   ret, result, ops, scanned>>

b3_return ==
    /\ pc = "b3_loop" /\ i >= Len(M)
    /\ pc' = "done" /\ ret' = "point"
    /\ result' = IF entry THEN _aff_from_jac(R) ELSE R
    /\ UNCHANGED <<fn, entry, scalar, m0, m, w, Q0, Q, R, T, M, i, j, t, idx,
                   ops, scanned>>

\* ----- fixed window
T_fixed_window(ww, QJ) == chain_table(INFJ, QJ, pow2(ww))

_mult_jac_fixed_window(e, s, mm, ww, QJ) ==
    /\ Args("fixed_window", e, s, mm, ww, QJ)
    /\ IF mm < 0 THEN Raise /\ Locals(QJ, INFJ, <<>>, <<>>, 0)
       ELSE IF QJ = INFJ THEN Return(QJ) /\ Locals(QJ, INFJ, <<>>, <<>>, 0)
       ELSE IF ww <= 0 THEN Raise /\ Locals(QJ, INFJ, <<>>, <<>>, 0)
       ELSE LET tab == T_fixed_window(ww, QJ)
                digs == numberToBase(mm, pow2(ww))
            IN  Goto("fw_loop") /\ Locals(QJ, tab[digs[1] + 1], tab, digs, 1)

mult_fixed_window ==
    /\ pc = "idle"
    /\ \E s \in Scalars, ww \in Widths, A \in Points :
           _mult_jac_fixed_window(TRUE, s, int_from_integer(s) % ec_n,
                                  int_from_integer(ww), _jac_from_aff(A))

call_mult_jac_fixed_window ==
    /\ pc = "idle"
    /\ \E s \in Scalars, ww \in Widths, QJ \in Points :
           _mult_jac_fixed_window(FALSE, s, s, ww, QJ)

fw_loop ==
    /\ pc = "fw_loop" /\ i < Len(M)
    /\ R' = _add_jac(dbl_times(R, w), T[M[i + 1] + 1])
    /\ i' = i + 1
    /\ UNCHANGED <<pc, fn, entry, scalar, m0, m, w, Q0, Q, T, M, j, t, idx,
                   ret, result, ops, scanned>>

fw_return ==
    /\ pc = "fw_loop" /\ i >= Len(M)
    /\ pc' = "done" /\ ret' = "point"
    /\ result' = IF entry THEN _aff_from_jac(R) ELSE R
    /\ UNCHANGED <<fn, entry, scalar, m0, m, w, Q0, Q, R, T, M, i, j, t, idx,
                   ops, scanned>>

\* ----- sliding window
\* P = Q doubled k = w-1 times; T = [P, P+Q, P+2Q, ...] with p = 2^k entries
T_sliding_window_odd(ww, QJ) ==
    chain_table(QJ, _add_jac(QJ, QJ), pow2(ww - 1))

T_sliding_window(ww, QJ) ==
    chain_table(dbl_times(QJ, ww - 1), QJ, pow2(ww - 1))

\* the truncated window one bit short
window_len_short(lenM, ii, ww) ==
    IF (lenM - ii) < ww THEN lenM - ii - 1 ELSE ww

\* if (len(M) - i) < w: j = len(M) - i  else: j = w
window_len(lenM, ii, ww) == IF (lenM - ii) < ww THEN lenM - ii ELSE ww

\* t = M[i]; for a in range(1, j): t = 2 * t + M[i + a]
RECURSIVE window_value(_, _, _)
window_value(digs, ii, jj) ==
    IF jj <= 1 THEN digs[ii + 1]
    ELSE 2 * window_value(digs, ii, jj - 1) + digs[ii + jj]

\* for b in range(lo, hi): R = R+R; if M[b] == 1: R = R+Q
RECURSIVE bit_by_bit(_, _, _, _, _)
bit_by_bit(A, digs, lo, hi, QJ) ==
    IF lo >= hi THEN A
    ELSE LET D == _add_jac(A, A)
             S == IF digs[lo + 1] = 1 THEN _add_jac(D, QJ) ELSE D
         IN  bit_by_bit(S, digs, lo + 1, hi, QJ)

\* the positions lo, lo+1, ..., hi-1 of range(lo, hi)
Range(lo, hi) == [k \in 1 .. (hi - lo) |-> lo + k - 1]

_mult_jac_sliding_window(e, s, mm, ww, QJ) ==
    /\ Args("sliding_window", e, s, mm, ww, QJ)
    /\ IF mm < 0 THEN Raise /\ Locals(QJ, INFJ, <<>>, <<>>, 0)
       ELSE IF QJ = INFJ THEN Return(QJ) /\ Locals(QJ, INFJ, <<>>, <<>>, 0)
       ELSE IF ww <= 0 THEN Raise /\ Locals(QJ, INFJ, <<>>, <<>>, 0)
       ELSE /\ Goto("sw_loop")
            /\ Locals(QJ, INFJ, T_sliding_window(ww, QJ), numberToBase(mm, 2), 0)

mult_sliding_window ==
    /\ pc = "idle"
    /\ \E s \in Scalars, ww \in Widths, A \in Points :
           _mult_jac_sliding_window(TRUE, s, int_from_integer(s) % ec_n,
                                    int_from_integer(ww), _jac_from_aff(A))

call_mult_jac_sliding_window ==
    /\ pc = "idle"
    /\ \E s \in Scalars, ww \in Widths, QJ \in Points :
           _mult_jac_sliding_window(FALSE, s, s, ww, QJ)

\* one iteration of the while loop
sw_loop ==
    /\ pc = "sw_loop" /\ i < Len(M)
    /\ IF M[i + 1] = 0
       THEN /\ R' = _add_jac(R, R)
            /\ i' = i + 1
            /\ scanned' = Append(scanned, i)
            /\ UNCHANGED <<pc, ret, result, j, t>>
       ELSE LET jj == window_len(Len(M), i, w)
                tt == window_value(M, i, jj)
                p  == pow2(w - 1)
            IN  /\ j' = jj
                /\ t' = tt
                /\ scanned' = scanned \o Range(i, i + jj)
                /\ IF jj < w
                   THEN /\ R' = bit_by_bit(R, M, i, i + jj, Q)
                        /\ i' = i
                        /\ pc' = "done" /\ ret' = "point"
                        /\ result' = IF entry THEN _aff_from_jac(R') ELSE R'
                   ELSE /\ R' = _add_jac(dbl_times(R, w), T[(tt - p) + 1])
                        /\ i' = i + jj
                        /\ UNCHANGED <<pc, ret, result>>
    /\ UNCHANGED <<fn, entry, scalar, m0, m, w, Q0, Q, T, M, idx, ops>>

sw_return ==
    /\ pc = "sw_loop" /\ i >= Len(M)
    /\ pc' = "done" /\ ret' = "point"
    /\ result' = IF entry THEN _aff_from_jac(R) ELSE R
    /\ UNCHANGED <<fn, entry, scalar, m0, m, w, Q0, Q, R, T, M, i, j, t, idx,
                   ops, scanned>>

\* ----- wNAF
\* the plain residue, never centred
mods_unsigned(mm, ww) == mm % pow2(ww)

\* w2 = 2^w; M = m % w2; M >= w2 / 2 is 2 * M >= w2 on the integers
mods(mm, ww) ==
    LET w2 == pow2(ww)
        r  == mm % w2
    IN  IF 2 * r >= w2 THEN r - w2 ELSE r

\* T = [Q, 3Q, 5Q, ...] (b/2 entries) followed by the negation of each
T_w_NAF(ww, QJ) ==
    LET b    == pow2(ww)
        half == chain_table(QJ, _add_jac(QJ, QJ), b \div 2)
    IN  half \o [k \in 1 .. (b - (b \div 2)) |-> negate(half[k])]

\* the negative branch taken on |d|: halfSize - (|d| + 1) / 2
naf_index_abs(d, b) ==
    IF d > 0 THEN (d - 1) \div 2
    ELSE (b \div 2) - (((IF d < 0 THEN -d ELSE d) + 1) \div 2)

\* the table index of the signed digit d (0-based, as in the code)
naf_index(d, b) ==
    IF d > 0 THEN (d - 1) \div 2 ELSE (b \div 2) - ((d + 1) \div 2)

_mult_jac_w_NAF(e, s, mm, ww, QJ) ==
    /\ Args("w_NAF", e, s, mm, ww, QJ)
    /\ IF mm < 0 THEN Raise /\ Locals(QJ, INFJ, <<>>, <<>>, 0)
       ELSE IF mm = 0 THEN Return(INFJ) /\ Locals(QJ, INFJ, <<>>, <<>>, 0)
       ELSE IF QJ = INFJ THEN Return(QJ) /\ Locals(QJ, INFJ, <<>>, <<>>, 0)
       ELSE IF ww <= 0 THEN Raise /\ Locals(QJ, INFJ, <<>>, <<>>, 0)
       ELSE Goto("naf_digits") /\ Locals(QJ, INFJ, <<>>, <<>>, 0)

mult_w_NAF ==
    /\ pc = "idle"
    /\ \E s \in Scalars, ww \in Widths, A \in Points :
           _mult_jac_w_NAF(TRUE, s, int_from_integer(s) % ec_n,
                           int_from_integer(ww), _jac_from_aff(A))

call_mult_jac_w_NAF ==
    /\ pc = "idle"
    /\ \E s \in Scalars, ww \in Widths, QJ \in Points :
           _mult_jac_w_NAF(FALSE, s, s, ww, QJ)

\* one iteration of while (m > 0); the list M is capped at MaxDigits
naf_digits ==
    /\ pc = "naf_digits" /\ m > 0 /\ Len(M) < MaxDigits
    /\ IF (m % 2) = 1
       THEN LET d == mods(m, w)
            IN  /\ M' = Append(M, d)
                /\ m' = (m - d) \div 2
       ELSE /\ M' = Append(M, 0)
            /\ m' = m \div 2
    /\ i' = i + 1
    /\ UNCHANGED <<pc, fn, entry, scalar, m0, w, Q0, Q, R, T, j, t, idx,
                   ret, result, ops, scanned>>

\* the digit loop is left: p = i, the table is built, R = INFJ
naf_table ==
    /\ pc = "naf_digits" /\ ~(m > 0)
    /\ j' = i - 1
    /\ T' = T_w_NAF(w, Q)
    /\ i' = pow2(w) - 1
    /\ R' = INFJ
    /\ pc' = "naf_scan"
    /\ UNCHANGED <<fn, entry, scalar, m0, m, w, Q0, Q, M, t, idx,
                   ret, result, ops, scanned>>

\* one iteration of for j in range(p - 1, -1, -1)
naf_scan ==
    /\ pc = "naf_scan" /\ j >= 0
    /\ LET D == _add_jac(R, R)
           d == M[j + 1]
           k == naf_index(d, pow2(w))
       IN  IF d /= 0
           THEN R' = _add_jac(D, T[k + 1]) /\ idx' = k
           ELSE R' = D /\ idx' = -1
    /\ j' = j - 1
    /\ UNCHANGED <<pc, fn, entry, scalar, m0, m, w, Q0, Q, T, M, i, t,
                   ret, result, ops, scanned>>

naf_return ==
    /\ pc = "naf_scan" /\ j < 0
    /\ pc' = "done" /\ ret' = "point"
    /\ result' = IF entry THEN _aff_from_jac(R) ELSE R
    /\ UNCHANGED <<fn, entry, scalar, m0, m, w, Q0, Q, R, T, M, i, j, t, idx,
                   ops, scanned>>

\* ----- the caller takes the outcome; the locals are discarded
call_ends ==
    /\ pc = "done"
    /\ pc' = "idle" /\ fn' = "none" /\ entry' = FALSE /\ scalar' = 0 /\ m0' = 0
    /\ m' = 0 /\ w' = 0 /\ Q0' = INFJ /\ Q' = INFJ /\ R' = INFJ
    /\ T' = <<>> /\ M' = <<>> /\ i' = 0 /\ j' = 0 /\ t' = 0 /\ idx' = -1
    /\ ret' = "none" /\ result' = INFJ /\ ops' = <<>> /\ scanned' = <<>>

Next ==
    \/ mult_mont_ladder
    \/ call_mult_jac_mont_ladder
    \/ ml_loop
    \/ ml_return
    \/ mult_base_3
    \/ call_mult_jac_base_3
    \/ b3_loop
    \/ b3_return
    \/ mult_fixed_window
    \/ call_mult_jac_fixed_window
    \/ fw_loop
    \/ fw_return
    \/ mult_sliding_window
    \/ call_mult_jac_sliding_window
    \/ sw_loop
    \/ sw_return
    \/ mult_w_NAF
    \/ call_mult_jac_w_NAF
    \/ naf_digits
    \/ naf_table
    \/ naf_scan
    \/ naf_return
    \/ call_ends

Spec == Init /\ [][Next]_vars

\* ======================= properties =======================
\* the multiple k*A in the group of order ec_n
Mult(k, A) == ((k % ec_n) * A) % ec_n

Abs(x) == IF x < 0 THEN -x ELSE x

\* int.bit_length()
RECURSIVE bit_length(_)
bit_length(k) == IF k <= 0 THEN 0 ELSE 1 + bit_length(k \div 2)

Windowed == {"fixed_window", "sliding_window", "w_NAF"}

\* the window width is in the valid range of the running strategy
ValidW ==
    \/ fn \in {"mont_ladder", "base_3"}
    \/ fn \in {"fixed_window", "sliding_window"} /\ w >= 1
    \/ fn = "w_NAF" /\ w >= 2

\* C1: for every scalar >= 0, every point and every valid window width, each
\* of the five strategies returns (scalar mod n)*Q: the result is the same
\* for all strategies, for m and m mod n, and for every w.
C1_AllStrategiesAgree ==
    (pc = "done" /\ scalar >= 0 /\ ValidW) =>
        (ret = "point" /\ result = Mult(scalar, Q0))

C1_Witness ==
    /\ pc = "done" /\ fn = "w_NAF" /\ w = 3 /\ entry
    /\ scalar > ec_n /\ ret = "point" /\ result \notin {INFJ, Q0}

\* C2: identity laws, for each strategy and every valid window width:
\* multiply(0, Q) is infinity, multiply(m, infinity) is infinity and
\* multiply(1, Q) is Q.
C2_IdentityLaws ==
    (pc = "done" /\ scalar >= 0 /\ ValidW) =>
        /\ (scalar = 0 => (ret = "point" /\ result = INFJ))
        /\ (Q0 = INFJ => (ret = "point" /\ result = INFJ))
        /\ (scalar = 1 => (ret = "point" /\ result = Q0))

C2_Witness ==
    /\ pc = "done" /\ fn = "sliding_window" /\ w = 2
    /\ scalar = 1 /\ Q0 /= INFJ /\ result = Q0

\* C3: a call with a negative scalar raises a value error, for every
\* strategy, through the public entry point as well as on the engine.
C3_NegativeScalarRaises ==
    (pc = "done" /\ scalar < 0) => ret = "ValueError"

\* C4: for the windowed strategies a call with w <= 0 and m >= 0 raises a
\* value error for every m and Q, before any table entry is built, and no
\* point is returned.
C4_NonPositiveWidthRaises ==
    (pc /= "idle" /\ fn \in Windowed /\ w <= 0 /\ scalar >= 0) =>
        (pc = "done" /\ ret = "ValueError" /\ T = <<>>)

\* one addition then one doubling, k times
AltOps(k) == [x \in 1 .. (2 * k) |-> IF x % 2 = 1 THEN "add" ELSE "dbl"]

\* the number of binary digits of m: its bit-length, and 1 for m = 0
BinLen(k) == IF k = 0 THEN 1 ELSE bit_length(k)

\* C5 as stated: for every scalar m of bit-length k and every point Q the
\* ladder performs exactly k additions and k doublings, one addition then
\* one doubling per bit.
C5_LadderOpsEveryPoint ==
    (pc = "done" /\ fn = "mont_ladder" /\ scalar >= 0) =>
        ops = AltOps(BinLen(m0))

\* C5 amended: for every point Q other than infinity and every scalar
\* m >= 0 of bit-length k the ladder performs one addition then one doubling
\* per bit, k of each; for Q = infinity it performs none.
C5_LadderOpsFinitePoint ==
    (fn = "mont_ladder" /\ m0 >= 0) =>
        /\ (pc = "ml_loop" => ops = AltOps(i))
        /\ (pc = "done" =>
               ops = IF Q0 = INFJ THEN <<>>
                     ELSE AltOps(BinLen(m0)))

C5_Witness ==
    /\ pc = "done" /\ fn = "mont_ladder" /\ Q0 /= INFJ
    /\ m0 = 5 /\ Len(ops) = 6

\* C6: a wNAF call with w < 2, m > 0 and a point other than infinity is
\* rejected with a value error: the digit loop is never entered with w = 1.
C6_NafRejectsWidthOne ==
    (fn = "w_NAF" /\ w < 2 /\ scalar > 0 /\ m0 > 0 /\ Q0 /= INFJ
        /\ pc /= "idle") =>
        (pc = "done" /\ ret = "ValueError")

\* C7: in the sliding-window engine the bits are consumed in order, each
\* exactly once; a truncated window (0 < j < w at the return) covers exactly
\* the bits i..len(M)-1; the returned point is m*Q.
C7_SlidingWindowScansEveryBit ==
    (fn = "sliding_window" /\ pc \in {"sw_loop", "done"} /\ M /= <<>>) =>
        /\ scanned = Range(0, Len(scanned))
        /\ (pc = "sw_loop" => Len(scanned) = i)
        /\ (pc = "done" =>
               /\ scanned = Range(0, Len(M))
               /\ ((0 < j /\ j < w) => i + j = Len(M))
               /\ ret = "point" /\ result = Mult(m0, Q0))

C7_Witness ==
    /\ pc = "done" /\ fn = "sliding_window" /\ w = 3
    /\ j = 1 /\ i = 3 /\ Len(M) = 4 /\ Q0 /= INFJ

\* C8 as stated: the sliding-window table holds the odd multiples 1Q, 3Q,
\* 5Q, ... and the value t of every full-length window is odd.
C8_TableOddMultiples ==
    (fn = "sliding_window" /\ T /= <<>>) =>
        /\ \A k \in 1 .. Len(T) : T[k] = Mult(2 * k - 1, Q0)
        /\ (j = w => t % 2 = 1)

\* C8 amended: the sliding-window table holds the 2^(w-1) consecutive
\* multiples 2^(w-1)*Q, ..., (2^w - 1)*Q (first 2^(w-1)*Q by w-1 doublings,
\* then chained additions of Q), and the value t of every full-length window
\* has its top bit set, 2^(w-1) <= t <= 2^w - 1, of either parity.
C8_TableConsecutiveMultiples ==
    (fn = "sliding_window" /\ T /= <<>>) =>
        /\ Len(T) = pow2(w - 1)
        /\ \A k \in 1 .. Len(T) : T[k] = Mult(pow2(w - 1) + k - 1, Q0)
        /\ (j = w => (pow2(w - 1) <= t /\ t <= pow2(w) - 1))

C8_Witness ==
    /\ fn = "sliding_window" /\ pc = "sw_loop" /\ w = 3 /\ Len(T) = 4
    /\ j = w /\ t = 6 /\ Q0 /= INFJ

\* the digit the last step of the wNAF scan processed
LastDigit == M[j + 2]

\* C9 as stated: for every non-zero digit d the index is within 0..2^w-1
\* and the entry is d*Q; a positive d uses (|d|-1)/2 in the lower half, a
\* negative d uses halfSize - (|d|+1)/2, which lies in the upper half.
C9_NafIndexAbs ==
    (fn = "w_NAF" /\ w >= 2 /\ pc \in {"naf_scan", "done"} /\ idx /= -1) =>
        LET d    == LastDigit
            half == pow2(w) \div 2
        IN  /\ idx \in 0 .. (pow2(w) - 1)
            /\ T[idx + 1] = Mult(d, Q0)
            /\ (d > 0 => (idx = (Abs(d) - 1) \div 2 /\ idx < half))
            /\ (d < 0 => (idx = half - ((Abs(d) + 1) \div 2) /\ idx >= half))

\* C9 amended: as stated, but a negative d uses index
\* halfSize - (d+1)/2 with the signed digit, that is halfSize + (|d|-1)/2.
C9_NafIndexSigned ==
    (fn = "w_NAF" /\ w >= 2 /\ pc \in {"naf_scan", "done"} /\ idx /= -1) =>
        LET d    == LastDigit
            half == pow2(w) \div 2
        IN  /\ idx \in 0 .. (pow2(w) - 1)
            /\ T[idx + 1] = Mult(d, Q0)
            /\ (d > 0 => (idx = (Abs(d) - 1) \div 2 /\ idx < half))
            /\ (d < 0 => (idx = half + ((Abs(d) - 1) \div 2) /\ idx >= half))

C9_Witness ==
    /\ fn = "w_NAF" /\ pc = "naf_scan" /\ w = 3 /\ idx = 5
    /\ LastDigit = -3 /\ Q0 /= INFJ

\* sum of digs[k] * 2^(k-1): the value of a digit list, least significant first
RECURSIVE digits_value(_)
digits_value(digs) ==
    IF digs = <<>> THEN 0 ELSE Head(digs) + 2 * digits_value(Tail(digs))

\* C10: for m > 0 and w >= 2 the digit loop keeps
\* m0 = m * 2^i + sum_{k<i} M[k] * 2^k, so on exit the digits sum to m0;
\* every non-zero digit is odd with |d| <= 2^(w-1) - 1; any w consecutive
\* digits hold at most one non-zero digit.
C10_ValidNaf ==
    (fn = "w_NAF" /\ w >= 2 /\ pc \in {"naf_digits", "naf_scan", "done"}
        /\ ret /= "ValueError" /\ m0 > 0 /\ Q0 /= INFJ) =>
        /\ (pc = "naf_digits" =>
               (Len(M) = i /\ m0 = m * pow2(i) + digits_value(M)))
        /\ (pc /= "naf_digits" => digits_value(M) = m0)
        /\ \A k \in 1 .. Len(M) :
               M[k] /= 0 => (M[k] % 2 = 1 /\ Abs(M[k]) <= pow2(w - 1) - 1)
        /\ \A a \in 1 .. Len(M), b \in 1 .. Len(M) :
               (a < b /\ b - a < w) => (M[a] = 0 \/ M[b] = 0)
        /\ Len(M) <= bit_length(m0) + 1

C10_Witness ==
    /\ fn = "w_NAF" /\ pc = "naf_scan" /\ w = 2 /\ m0 = 7
    /\ M = <<-1, 0, 0, 1>>
====
